---------------------------- MODULE Spec2Model ----------------------------
(***************************************************************************)
(* Model of src/main.py: a corpus loader (read_data, ensemble_mots) and    *)
(* four filters over a set of words (mots_de_n_lettres, mots_avec,         *)
(* cherche1, cherche2).  The module defines every function twice; the      *)
(* second definitions (lines 201-237) are the ones bound when the module   *)
(* has been loaded, and they are the ones modelled here.                   *)
(*                                                                         *)
(* A str is a sequence of one-character strings.  A set object lives in    *)
(* the heap, a sequence of set values indexed by address; a filter takes   *)
(* the heap and the address of its input set and returns the new heap and  *)
(* the address of the set it returns.                                      *)
(***************************************************************************)
EXTENDS Integers, Sequences, FiniteSets

VARIABLES
    source,       \* text of the corpus file
    mots,         \* list returned by read_data (main, line 242)
    vocabulaire,  \* value of the vocabulary when it was built
    heap,         \* set objects; heap[1] is the vocabulary (ens of main)
    pc,           \* "debut", "lu", "pret" (between calls), "appel" (a filter returned)
    call          \* the filter call that returned last: fn, args, ret

vars == <<source, mots, vocabulaire, heap, pc, call>>

(***************************** bounds **************************************)
MaxSource == 5
MaxWordLen == 2
MaxVocab == 2

Letters == {"a", "z"}
SourceChars == Letters \cup {" ", "\n"}

BoundedSeq(S, n) == UNION {[1..k -> S] : k \in 0..n}

Sources == BoundedSeq(SourceChars, MaxSource)
Words == BoundedSeq(Letters, MaxWordLen)
Vocabularies == {V \in SUBSET Words : Cardinality(V) <= MaxVocab}
Longueurs == -1 .. (MaxWordLen + 1)
LongueursC2 == 0 .. (MaxWordLen + 1)

\* Python values passed as lstart, lmid, lstop: a list of str, or a str.
PyList(l) == [kind |-> "list", val |-> l]
PyStr(s) == [kind |-> "str", val |-> s]
Affixes == {<<>>, <<"a">>, <<"z">>, <<"a", "z">>}
ListArgs == {PyList(<<>>)} \cup {PyList(<<x>>) : x \in Affixes}
               \cup {PyList(<< <<"a">>, <<"z">> >>)}
StrArgs == {PyStr(x) : x \in Affixes}
MixedArgs == StrArgs \cup {PyList(<< <<"a">>, <<"z">> >>), PyList(<< <<"a", "z">> >>)}

(***************************** str methods *********************************)
Whitespace == {" ", "\t", "\n", "\r"}

RECURSIVE lstrip(_)
lstrip(s) ==
    IF s # <<>> /\ Head(s) \in Whitespace THEN lstrip(Tail(s)) ELSE s

RECURSIVE rstrip(_)
rstrip(s) ==
    IF s # <<>> /\ s[Len(s)] \in Whitespace
    THEN rstrip(SubSeq(s, 1, Len(s) - 1)) ELSE s

strip(s) == rstrip(lstrip(s))

startswith(mot, prefix) ==
    /\ Len(prefix) <= Len(mot)
    /\ SubSeq(mot, 1, Len(prefix)) = prefix

endswith(mot, suffix) ==
    /\ Len(suffix) <= Len(mot)
    /\ SubSeq(mot, Len(mot) - Len(suffix) + 1, Len(mot)) = suffix

contains_nonempty(mot, s) ==
    \E i \in 1..Len(mot) :
        /\ i + Len(s) - 1 <= Len(mot)
        /\ SubSeq(mot, i, i + Len(s) - 1) = s

\* s in mot
contains(mot, s) ==
    \E i \in 0..(Len(mot) - Len(s)) : SubSeq(mot, i + 1, i + Len(s)) = s

\* The values a for loop / generator draws from a list or a str.
iter_whole(x) ==
    IF x.kind = "str" THEN <<x.val>> ELSE x.val

iter(x) ==
    IF x.kind = "str" THEN [i \in 1..Len(x.val) |-> <<x.val[i]>>] ELSE x.val

any_or_vacuous(bools) ==
    bools = <<>> \/ \E i \in 1..Len(bools) : bools[i]

any(bools) == \E i \in 1..Len(bools) : bools[i]

(***************************** the loader **********************************)
\* for line in file: the lines of the text, each with its line end.
RECURSIVE file_lines(_, _)
file_lines(text, cur) ==
    IF text = <<>> THEN (IF cur = <<>> THEN <<>> ELSE <<cur>>)
    ELSE IF Head(text) = "\n"
         THEN <<Append(cur, "\n")>> \o file_lines(Tail(text), <<>>)
         ELSE file_lines(Tail(text), Append(cur, Head(text)))

RECURSIVE read_data_lines(_)
read_data_lines(lines) ==
    IF lines = <<>> THEN <<>>
    ELSE LET line == Head(lines) IN
         IF strip(line) # <<>> \/ line = <<"\n">>
         THEN <<strip(line)>> \o read_data_lines(Tail(lines))
         ELSE read_data_lines(Tail(lines))

read_data(text) == read_data_lines(file_lines(text, <<>>))

ensemble_mots_nonempty(text) ==
    {read_data(text)[i] : i \in 1..Len(read_data(text))} \ {<<>>}

ensemble_mots(text) ==
    {read_data(text)[i] : i \in 1..Len(read_data(text))}

(***************************** the filters *********************************)
\* A set display or set() builds a new set object.
Alloc(h, S) == [heap |-> Append(h, S), ret |-> Len(h) + 1]

mots_de_n_lettres(h, m, n) ==
    Alloc(h, {mot \in h[m] : Len(mot) = n})

mots_avec(h, m, s) ==
    Alloc(h, {mot \in h[m] : contains(mot, s)})

cherche1_no_overlap(h, m, start, stop, n) ==
    Alloc(h, {mot \in h[m] : /\ Len(mot) = n
                             /\ Len(start) + Len(stop) <= Len(mot)
                             /\ startswith(mot, start)
                             /\ endswith(mot, stop)})

cherche1(h, m, start, stop, n) ==
    Alloc(h, {mot \in h[m] : /\ Len(mot) = n
                             /\ startswith(mot, start)
                             /\ endswith(mot, stop)})

longueur_ok_excl(mot, nmin, nmax) == nmin <= Len(mot) /\ Len(mot) < nmax

longueur_ok(mot, nmin, nmax) == nmin <= Len(mot) /\ Len(mot) <= nmax

critere_sans_mid(mot, lstart, lmid, lstop) ==
    /\ any([i \in 1..Len(iter(lstart)) |-> startswith(mot, iter(lstart)[i])])
    /\ any([i \in 1..Len(iter(lstop)) |-> endswith(mot, iter(lstop)[i])])

critere(mot, lstart, lmid, lstop) ==
    /\ any([i \in 1..Len(iter(lstart)) |-> startswith(mot, iter(lstart)[i])])
    /\ any([i \in 1..Len(iter(lstop)) |-> endswith(mot, iter(lstop)[i])])
    /\ any([i \in 1..Len(iter(lmid)) |-> contains(mot, iter(lmid)[i])])

\* for mot in mots: ... result.add(mot); todo holds the words not yet visited.
RECURSIVE cherche2_for(_, _, _, _, _, _, _, _)
cherche2_for(h, result, todo, lstart, lmid, lstop, nmin, nmax) ==
    IF todo = {} THEN h
    ELSE LET mot == CHOOSE x \in todo : TRUE
             rest == todo \ {mot}
         IN  IF ~longueur_ok(mot, nmin, nmax)
             THEN cherche2_for(h, result, rest, lstart, lmid, lstop, nmin, nmax)
             ELSE IF critere(mot, lstart, lmid, lstop)
                  THEN cherche2_for([h EXCEPT ![result] = @ \cup {mot}], result,
                                    rest, lstart, lmid, lstop, nmin, nmax)
                  ELSE cherche2_for(h, result, rest, lstart, lmid, lstop, nmin, nmax)

cherche2_in_place(h, m, lstart, lmid, lstop, nmin, nmax) ==
    [heap |-> [h EXCEPT ![m] = {mot \in h[m] : /\ longueur_ok(mot, nmin, nmax)
                                               /\ critere(mot, lstart, lmid, lstop)}],
     ret |-> m]

cherche2(h, m, lstart, lmid, lstop, nmin, nmax) ==
    LET r == Alloc(h, {}) IN
    [heap |-> cherche2_for(r.heap, r.ret, r.heap[m], lstart, lmid, lstop, nmin, nmax),
     ret |-> r.ret]

(***************************** the state machine ***************************)
NoCall == [fn |-> "none", args |-> <<>>, ret |-> 0]

\* The filters applied, any number of times, to any vocabulary.
Init ==
    /\ source = <<>>
    /\ mots = <<>>
    /\ vocabulaire \in Vocabularies
    /\ heap = <<vocabulaire>>
    /\ pc = "pret"
    /\ call = NoCall

\* The program from the corpus file on.
InitCorpus ==
    /\ source \in Sources
    /\ mots = <<>>
    /\ vocabulaire = {}
    /\ heap = <<>>
    /\ pc = "debut"
    /\ call = NoCall

ReadData ==
    /\ pc = "debut"
    /\ mots' = read_data(source)
    /\ pc' = "lu"
    /\ UNCHANGED <<source, vocabulaire, heap, call>>

EnsembleMots ==
    /\ pc = "lu"
    /\ heap' = <<ensemble_mots(source)>>
    /\ vocabulaire' = ensemble_mots(source)
    /\ pc' = "pret"
    /\ UNCHANGED <<source, mots, call>>

Returned(fn, args, r) ==
    /\ heap' = r.heap
    /\ call' = [fn |-> fn, args |-> args, ret |-> r.ret]
    /\ pc' = "appel"
    /\ UNCHANGED <<source, mots, vocabulaire>>

MotsDeNLettres ==
    /\ pc = "pret"
    /\ \E n \in Longueurs :
          Returned("mots_de_n_lettres", <<n>>, mots_de_n_lettres(heap, 1, n))

MotsAvec ==
    /\ pc = "pret"
    /\ \E s \in Affixes :
          Returned("mots_avec", <<s>>, mots_avec(heap, 1, s))

Cherche1 ==
    /\ pc = "pret"
    /\ \E start \in Affixes, stop \in Affixes, n \in Longueurs :
          Returned("cherche1", <<start, stop, n>>, cherche1(heap, 1, start, stop, n))

Cherche2 ==
    /\ pc = "pret"
    /\ \E lstart \in ListArgs, lmid \in ListArgs, lstop \in ListArgs,
          nmin \in LongueursC2, nmax \in LongueursC2 :
          Returned("cherche2", <<lstart, lmid, lstop, nmin, nmax>>,
                   cherche2(heap, 1, lstart, lmid, lstop, nmin, nmax))

\* cherche2 called with a plain string for at least one of its lists, as its
\* doctest does (line 164).
Cherche2Str ==
    /\ pc = "pret"
    /\ \E lstart \in MixedArgs, lmid \in MixedArgs, lstop \in MixedArgs,
          nmin \in LongueursC2, nmax \in LongueursC2 :
          /\ "str" \in {lstart.kind, lmid.kind, lstop.kind}
          /\ Returned("cherche2", <<lstart, lmid, lstop, nmin, nmax>>,
                   cherche2(heap, 1, lstart, lmid, lstop, nmin, nmax))

\* The caller is done with the result; the vocabulary object stays.
Retour ==
    /\ pc = "appel"
    /\ heap' = <<heap[1]>>
    /\ call' = NoCall
    /\ pc' = "pret"
    /\ UNCHANGED <<source, mots, vocabulaire>>

Next ==
    \/ MotsDeNLettres
    \/ MotsAvec
    \/ Cherche1
    \/ Cherche2
    \/ Cherche2Str
    \/ Retour

NextCorpus ==
    \/ ReadData
    \/ EnsembleMots
    \/ MotsDeNLettres
    \/ Retour

Spec == Init /\ [][Next]_vars

SpecCorpus == InitCorpus /\ [][NextCorpus]_vars

(***************************** the claims **********************************)
\* What the claims speak of, stated without the operators of the model.
Prefixe(p, w) == \E k \in 0..Len(w) : SubSeq(w, 1, k) = p
Suffixe(s, w) == \E k \in 0..Len(w) : SubSeq(w, k + 1, Len(w)) = s
Facteur(m, w) ==
    \E i \in 1..(Len(w) + 1) : \E j \in (i - 1)..Len(w) : SubSeq(w, i, j) = m
Elements(l) == {l[i] : i \in 1..Len(l)}
Chars(s) == {<<s[i]>> : i \in 1..Len(s)}
Alternatives(x) == IF x.kind = "str" THEN Chars(x.val) ELSE Elements(x.val)
Correspond(V, P, M, S, nmin, nmax) ==
    {w \in V : /\ nmin <= Len(w) /\ Len(w) <= nmax
               /\ \E p \in P : Prefixe(p, w)
               /\ \E s \in S : Suffixe(s, w)
               /\ \E m \in M : Facteur(m, w)}

Valeur(r) == r.heap[r.ret]
Resultat == heap[call.ret]
Appel(fn) == pc = "appel" /\ call.fn = fn
AllKind(k) == \A i \in 1..3 : call.args[i].kind = k

\* C1: cherche2 called with lists returns exactly the words of the vocabulary
\* whose length lies in [nmin, nmax], that start with an element of lstart, end
\* with an element of lstop and contain an element of lmid.
C1_Cherche2Exact ==
    (Appel("cherche2") /\ AllKind("list")) =>
        Resultat = Correspond(vocabulaire, Elements(call.args[1].val),
                              Elements(call.args[2].val), Elements(call.args[3].val),
                              call.args[4], call.args[5])

C1_Witness ==
    /\ Appel("cherche2") /\ AllKind("list")
    /\ Len(call.args[1].val) = 2
    /\ call.args[4] < call.args[5]
    /\ Resultat # {}
    /\ Resultat # vocabulaire

\* C2: cherche1(V, p, s, n) is mots_de_n_lettres(V, n) intersected with the words
\* of V starting with p and the words of V ending with s; a word shorter than p
\* or s is left out, and p and s may overlap in the word.
C2_Cherche1Compose ==
    Appel("cherche1") =>
        Resultat = Valeur(mots_de_n_lettres(<<vocabulaire>>, 1, call.args[3]))
                     \cap {w \in vocabulaire : Prefixe(call.args[1], w)}
                     \cap {w \in vocabulaire : Suffixe(call.args[2], w)}

C2_Witness ==
    /\ Appel("cherche1")
    /\ call.args = << <<"z">>, <<"z">>, 1 >>
    /\ <<"z">> \in Resultat
    /\ Resultat # vocabulaire

\* C3: cherche2 with singleton lists [p], [m], [s] and nmin = nmax = n equals
\* cherche1(V, p, s, n) intersected with mots_avec(V, m).
C3_SingletonEquiv ==
    (/\ Appel("cherche2") /\ AllKind("list")
     /\ \A i \in 1..3 : Len(call.args[i].val) = 1
     /\ call.args[4] = call.args[5]) =>
        Resultat = Valeur(cherche1(<<vocabulaire>>, 1, call.args[1].val[1],
                                   call.args[3].val[1], call.args[4]))
                     \cap Valeur(mots_avec(<<vocabulaire>>, 1, call.args[2].val[1]))

C3_Witness ==
    /\ Appel("cherche2") /\ AllKind("list")
    /\ \A i \in 1..3 : Len(call.args[i].val) = 1
    /\ call.args[4] = call.args[5]
    /\ Resultat # {}
    /\ Resultat # Valeur(cherche1(<<vocabulaire>>, 1, call.args[1].val[1],
                                  call.args[3].val[1], call.args[4]))

\* C4: mots_de_n_lettres(V, n) is empty for every n <= 0, whatever V holds,
\* also a vocabulary ensemble_mots built from a file.
C4_NonPositiveEmpty ==
    (Appel("mots_de_n_lettres") /\ call.args[1] <= 0) => Resultat = {}

\* C5: cherche2 returns the empty set when lstart, lmid or lstop is an empty
\* list, and when nmin > nmax.
C5_EmptyCriteria ==
    (/\ Appel("cherche2")
     /\ \/ \E i \in 1..3 : call.args[i] = PyList(<<>>)
        \/ call.args[4] > call.args[5]) =>
        Resultat = {}

C5_Witness ==
    /\ Appel("cherche2") /\ AllKind("list")
    /\ call.args[3] = PyList(<<>>)
    /\ call.args[4] <= call.args[5]
    /\ \E w \in vocabulaire :
          /\ call.args[4] <= Len(w) /\ Len(w) <= call.args[5]
          /\ \E p \in Elements(call.args[1].val) : Prefixe(p, w)
          /\ \E m \in Elements(call.args[2].val) : Facteur(m, w)
    /\ Resultat = {}

\* C6: mots_avec(V, "") is V, the empty word of V included.
C6_EmptySubstring ==
    (Appel("mots_avec") /\ call.args[1] = <<>>) => Resultat = vocabulaire

C6_Witness ==
    /\ Appel("mots_avec") /\ call.args[1] = <<>>
    /\ <<>> \in vocabulaire
    /\ Cardinality(vocabulaire) = 2
    /\ Resultat = vocabulaire

\* C7: ensemble_mots(source) is the set of the elements of read_data(source): it
\* has at most as many elements as the list has entries, and as many exactly
\* when no token occurs twice in the list.
NoDuplicate(l) == \A i, j \in 1..Len(l) : l[i] = l[j] => i = j
C7_VocabularyOfCorpus ==
    pc \in {"pret", "appel"} =>
        /\ vocabulaire = Elements(mots)
        /\ heap[1] = Elements(mots)
        /\ Cardinality(vocabulaire) <= Len(mots)
        /\ (Cardinality(vocabulaire) = Len(mots)) <=> NoDuplicate(mots)

C7_Witness ==
    /\ pc = "pret"
    /\ ~NoDuplicate(mots)
    /\ Cardinality(vocabulaire) = 2
    /\ Len(mots) = 3

\* C8: for a source of newline-terminated lines read_data returns, in order and
\* with duplicates, the trimmed text of each line that is not empty or blank,
\* and so never the empty string.
NewlineTerminated(text) == text = <<>> \/ text[Len(text)] = "\n"
NonBlank(line) == strip(line) # <<>>
TrimmedNonBlank(text) ==
    LET kept == SelectSeq(file_lines(text, <<>>), NonBlank)
    IN  [i \in 1..Len(kept) |-> strip(kept[i])]
C8_OneTokenPerNonEmptyLine ==
    (pc # "debut" /\ NewlineTerminated(source)) =>
        /\ mots = TrimmedNonBlank(source)
        /\ \A i \in 1..Len(mots) : mots[i] # <<>>

\* C9: a filter returns a set object other than its input, holding a subset of
\* the input, and the input set holds after the call what it held before; so
\* the vocabulary keeps its first value through any sequence of filter calls.
C9_FiltersPure ==
    /\ heap[1] = vocabulaire
    /\ pc = "appel" =>
          /\ call.ret # 1
          /\ call.ret \in 1..Len(heap)
          /\ Resultat \subseteq vocabulaire

C9_Witness ==
    /\ pc = "appel"
    /\ call.fn \in {"mots_de_n_lettres", "mots_avec", "cherche1", "cherche2"}
    /\ call.ret = 2
    /\ Cardinality(Resultat) = 1
    /\ Cardinality(heap[1]) = 2

\* C10: a plain string passed to cherche2 as lstart, lmid or lstop stands for
\* the list of its characters: one character is the singleton list holding it,
\* "az" accepts 'a' or 'z' and not the string "az", "" accepts nothing.
C10_StringAsCharacters ==
    (Appel("cherche2") /\ ~AllKind("list")) =>
        /\ Resultat = Correspond(vocabulaire, Alternatives(call.args[1]),
                                 Alternatives(call.args[2]), Alternatives(call.args[3]),
                                 call.args[4], call.args[5])
        /\ (\E i \in 1..3 : call.args[i] = PyStr(<<>>)) => Resultat = {}

C10_Witness ==
    /\ Appel("cherche2")
    /\ call.args[1] = PyStr(<<"a", "z">>)
    /\ call.args[2] = PyStr(<<"z">>)
    /\ call.args[3].kind = "list"
    /\ \E w \in Resultat : ~Prefixe(<<"a", "z">>, w)

=============================================================================
